---- MODULE Spec2Model ----
(***************************************************************************)
(* Dementia-companion: the REST backend (server/index.js), the voice       *)
(* service (services/voiceService.ts) and the conversation view (App.tsx). *)
(*                                                                         *)
(* JavaScript values are records [t, s, n]; a string is a sequence of      *)
(* chunks: user supplied text is one chunk per character, a literal of the *)
(* code is one chunk holding the literal.                                  *)
(***************************************************************************)
EXTENDS Integers, Sequences, FiniteSets

\* ------------------------------------------------------------------ bounds
MaxReqs == 2
MaxQueryLen == 3
MaxCalls == 3
MaxUserActions == 2
MaxClock == 1
MaxWindows == 2

\* -------------------------------------------------------- JavaScript values
Undef == [t |-> "undefined", s |-> <<>>, n |-> 0]
Null == [t |-> "null", s |-> <<>>, n |-> 0]
Str(chunks) == [t |-> "string", s |-> chunks, n |-> 0]
Num(k) == [t |-> "number", s |-> <<>>, n |-> k]
Lit(text) == Str(<<text>>)
Arr(items) == [t |-> "array", s |-> items, n |-> 0]
Fun == [t |-> "function", s |-> <<>>, n |-> 0]
\* a plain JSON object, and a JSON object with a member named toString
Obj == [t |-> "object", s |-> <<>>, n |-> 0]
BadObj == [t |-> "object", s |-> <<"toString">>, n |-> 0]

\* JavaScript ToBoolean, as used by `!message`, `query && ...`, `a || b`
Truthy(v) ==
  CASE v.t = "undefined" -> FALSE
    [] v.t = "null" -> FALSE
    [] v.t = "string" -> Len(v.s) > 0
    [] v.t = "number" -> v.n # 0
    [] OTHER -> TRUE

Digits == <<"0", "1", "2", "3", "4", "5", "6", "7", "8", "9">>

\* JavaScript ToString of a value interpolated by a template literal ${v}
toStr(v) ==
  CASE v.t = "undefined" -> <<"undefined">>
    [] v.t = "null" -> <<"null">>
    [] v.t = "string" -> v.s
    [] v.t = "number" -> <<Digits[v.n + 1]>>
    [] OTHER -> <<"[object Object]">>

\* ToString(v) throws a TypeError: OrdinaryToPrimitive finds toString not
\* callable and valueOf returning the object
Throws(v) == v.t = "object" /\ v.s = <<"toString">>

TypeErrorPrimitive ==
  [message |-> <<"Cannot convert object to primitive value">>,
   stack |-> <<"TypeError: Cannot convert object to primitive value">>]

\* a || b
OrElse(a, b) == IF Truthy(a) THEN a ELSE b

UpperCase == <<"A", "B", "C", "D", "E", "F", "G", "H", "I", "J", "K", "L", "M",
               "N", "O", "P", "Q", "R", "S", "T", "U", "V", "W", "X", "Y", "Z">>
LowerCase == <<"a", "b", "c", "d", "e", "f", "g", "h", "i", "j", "k", "l", "m",
               "n", "o", "p", "q", "r", "s", "t", "u", "v", "w", "x", "y", "z">>

toLowerChar(c) ==
  IF \E i \in 1..26 : UpperCase[i] = c
  THEN LowerCase[CHOOSE i \in 1..26 : UpperCase[i] = c]
  ELSE c

\* String.prototype.toLowerCase on a character sequence
toLowerCase(s) == [i \in 1..Len(s) |-> toLowerChar(s[i])]

\* String.prototype.includes
includes(s, sub) ==
  \E i \in 0..(Len(s) - Len(sub)) : SubSeq(s, i + 1, i + Len(sub)) = sub

\* JSON.stringify of an object: members whose value is undefined or a
\* function are dropped
Json(obj) ==
  LET keep == {k \in DOMAIN obj : obj[k].t \notin {"undefined", "function"}}
  IN [k \in keep |-> obj[k]]

\* new Date().toISOString(): the wall clock is not read back by any handler
toISOString == Lit("<ISO-8601>")

\* ----------------------------------------------------- server/index.js
\* the keyword list as it was before scarf, red, autumn and smile were added
Keywords_short == <<
  <<"m", "i", "r", "a">>,
  <<"g", "r", "a", "n", "d", "d", "a", "u", "g", "h", "t", "e", "r">>,
  <<"v", "i", "s", "i", "t">>,
  <<"s", "p", "e", "c", "i", "a", "l", " ", "d", "a", "y">>,
  <<"p", "a", "r", "k">>,
  <<"h", "u", "g">> >>

\* the keywords tested by /api/memory-lane, in the order of the || chain
Keywords == <<
  <<"m", "i", "r", "a">>,
  <<"g", "r", "a", "n", "d", "d", "a", "u", "g", "h", "t", "e", "r">>,
  <<"v", "i", "s", "i", "t">>,
  <<"s", "p", "e", "c", "i", "a", "l", " ", "d", "a", "y">>,
  <<"p", "a", "r", "k">>,
  <<"h", "u", "g">>,
  <<"s", "c", "a", "r", "f">>,
  <<"r", "e", "d">>,
  <<"a", "u", "t", "u", "m", "n">>,
  <<"s", "m", "i", "l", "e">> >>

\* isMiraRelated without the `query &&` guard
isMiraRelated_noGuard(query) ==
  IF query.t # "string" THEN "TypeError"
  ELSE IF \E k \in 1..Len(Keywords) : includes(toLowerCase(query.s), Keywords[k])
       THEN "true"
       ELSE "false"

\* isMiraRelated without toLowerCase
isMiraRelated_caseSensitive(query) ==
  IF ~Truthy(query) THEN "false"
  ELSE IF query.t # "string" THEN "TypeError"
  ELSE IF \E k \in 1..Len(Keywords) : includes(query.s, Keywords[k])
       THEN "true"
       ELSE "false"

\* const isMiraRelated = query && (query.toLowerCase().includes(..) || ..):
\* "false" when query is falsy (the right operand is not evaluated),
\* "TypeError" when a truthy query has no toLowerCase method
isMiraRelated(query) ==
  IF ~Truthy(query) THEN "false"
  ELSE IF query.t # "string" THEN "TypeError"
  ELSE IF \E k \in 1..Len(Keywords) : includes(toLowerCase(query.s), Keywords[k])
       THEN "true"
       ELSE "false"

chatPrompt(message, context) ==
  <<"You are a helpful, patient, and caring assistant speaking to someone with dementia. Please respond in a simple, clear, and supportive manner. Keep responses short and easy to understand. Avoid complex instructions or overwhelming information. User message: ">>
  \o toStr(message) \o <<"\n">>
  \o (IF Truthy(context) THEN <<"Context: ">> \o toStr(context) ELSE <<>>)

miraPrompt(query) ==
  <<"You are helping someone with dementia recall a beautiful memory with their granddaughter Mira. This was a special visit where they spent time together outdoors in autumn, both wearing matching red polka dot scarves. They shared the most wonderful hug, both smiling so brightly with pure joy and love. The autumn leaves created a perfect backdrop for this precious grandmother-granddaughter moment. Respond with warmth and help them explore this precious memory. Keep responses simple, loving, and encouraging. User input: ">>
  \o toStr(query)

\* generalPrompt interpolating the query also when it is empty or absent
generalPrompt_noFallback(query, memoryType) ==
  <<"You are helping someone with dementia explore their memories. Please provide warm, encouraging responses about ">>
  \o toStr(OrElse(memoryType, Lit("general memories")))
  \o <<". Ask gentle questions that might help them recall positive experiences. Keep the tone supportive and nostalgic. ">>
  \o <<"User input: ">> \o toStr(query)

generalPrompt(query, memoryType) ==
  <<"You are helping someone with dementia explore their memories. Please provide warm, encouraging responses about ">>
  \o toStr(OrElse(memoryType, Lit("general memories")))
  \o <<". Ask gentle questions that might help them recall positive experiences. Keep the tone supportive and nostalgic. ">>
  \o (IF Truthy(query) THEN <<"User input: ">> \o toStr(query)
      ELSE <<"Start a conversation about pleasant memories.">>)

memoryPrompt(mira, query, memoryType) ==
  IF mira THEN miraPrompt(query) ELSE generalPrompt(query, memoryType)

miraSuggestions == <<
  "Do you remember choosing those matching red scarves together?",
  "How did it feel when Mira gave you that big, warm hug?",
  "What made you both smile so joyfully that autumn day?",
  "Tell me about the beautiful autumn leaves around you",
  "What was special about wearing matching outfits with Mira?" >>

generalSuggestions == <<
  "Tell me about your favorite childhood meal",
  "What was your favorite song when you were young?",
  "Do you remember your first pet?",
  "What was your wedding day like?",
  "Tell me about a special holiday memory" >>

\* memorySuggestions with the last general suggestion missing
memorySuggestions_short(mira) ==
  IF mira THEN miraSuggestions ELSE SubSeq(generalSuggestions, 1, 4)

memorySuggestions(mira) == IF mira THEN miraSuggestions ELSE generalSuggestions

\* musicSuggestions[mood]: a property lookup by ToString(mood); a name that
\* Object.prototype defines yields the inherited function
musicSuggestions(mood) ==
  LET key == toStr(mood) IN
  CASE key = <<"happy">> ->
         Arr(<<"Here Comes the Sun - The Beatles", "What a Wonderful World - Louis Armstrong">>)
    [] key = <<"calm">> ->
         Arr(<<"Claire de Lune - Claude Debussy", "Weightless - Marconi Union">>)
    [] key = <<"nostalgic">> ->
         Arr(<<"The Way You Look Tonight - Frank Sinatra", "Moon River - Audrey Hepburn">>)
    [] key = <<"energetic">> ->
         Arr(<<"Good Vibrations - The Beach Boys", "I Want to Hold Your Hand - The Beatles">>)
    [] key \in {<<"toString">>, <<"valueOf">>, <<"constructor">>, <<"hasOwnProperty">>} -> Fun
    [] key = <<"__proto__">> -> Obj
    [] OTHER -> Undef

playlistSuggestions ==
  Arr(<<"Golden Oldies", "Classical Relaxation", "Big Band Era", "Feel Good Songs",
        "Memory Lane Hits">>)

spotifyResponse(action, query, mood) ==
  IF action = Lit("search")
  THEN Str(<<"I found some music for \"">> \o toStr(query) \o <<"\". Would you like me to play it?">>)
  ELSE IF action = Lit("mood")
  THEN Str(<<"Here are some ">> \o toStr(mood) \o <<" songs I think you'll enjoy!">>)
  ELSE Lit("What kind of music would you like to hear today?")

\* ------------------------------------------------------------- state
VARIABLES
  nodeEnv,      \* process.env.NODE_ENV
  upstream,     \* the generation service: "ok" or "failing"
  reqs          \* the HTTP requests: slot -> request record

\* services/voiceService.ts and the browser's SpeechRecognition object
VARIABLES
  recognition,  \* this.recognition: "SpeechRecognition" or "null"
  isListening,  \* this.isListening
  handlers,     \* the startListening call whose closures are installed as
                \* recognition.onresult / onerror (0: none installed)
  session,      \* the platform's recognition session: idle, active,
                \* stopping (stop() was called), closing (result or error
                \* delivered, end still to come)
  sessionCall,  \* the startListening call whose start() opened the session
  calls         \* the promises returned by startListening, in call order

\* client/src/App.tsx: the state of the App component, the clock it reads
\* and its suspended async handlers
VARIABLES
  messages,     \* useState<Message[]>: the message list, oldest first
  inputText,    \* useState(''): the text of the input field
  isRecording,  \* useState(false)
  isLoading,    \* useState(false)
  activeMode,   \* useState('chat'): chat, memory or spotify
  now,          \* Date.now()
  inFlight,     \* the axios.post calls awaited by handleSendMessage
  awaiting      \* the startListening calls awaited by startRecording

\* the Electron main process, its backend child and its environment
VARIABLES
  platform,       \* process.platform: "darwin" or "linux"
  external,       \* a backend that was started outside the shell is
                  \* listening on port 5001
  phase,          \* loaded (before app.whenReady), starting (awaiting
                  \* startServer), running, exited
  testConnection, \* the health probe of startServer: none, pending,
                  \* answered, errored
  children,       \* the child processes spawned so far, each spawning,
                  \* listening, failed, exited or killed
  serverProcess,  \* let serverProcess: 0 (undefined) or an index of children
  mainWindow,     \* let mainWindow: undefined, null or a BrowserWindow
  windows,        \* BrowserWindow.getAllWindows(): the ids of the open windows
  created,        \* how many BrowserWindows have been constructed
  lastClick       \* the last menu click and how its handler ended

server == <<nodeEnv, upstream>>
client == <<recognition, isListening, handlers, session, sessionCall, calls>>
view == <<messages, inputText, isRecording, isLoading, activeMode, now, inFlight,
          awaiting>>
shell == <<platform, external, phase, testConnection, children, serverProcess,
           mainWindow, windows, created, lastClick>>
vars == <<nodeEnv, upstream, reqs, recognition, isListening, handlers, session,
          sessionCall, calls, messages, inputText, isRecording, isLoading,
          activeMode, now, inFlight, awaiting, platform, external, phase,
          testConnection, children, serverProcess, mainWindow, windows, created,
          lastClick>>

Slots == 1..MaxReqs

NoBody == [message |-> Undef, context |-> Undef, query |-> Undef,
           memoryType |-> Undef, action |-> Undef, mood |-> Undef]

NoError == [message |-> <<>>, stack |-> <<>>]

\* st: idle (not yet sent), awaitGen (suspended at await model.generateContent),
\* done (handler returned); via: answered by the route handler or by the error
\* middleware; outcome/error: how the generation call settled
IdleReq == [st |-> "idle", ep |-> "", via |-> "", body |-> NoBody, prompt |-> <<>>,
            isMira |-> FALSE, genCalls |-> 0, responses |-> <<>>,
            console |-> <<>>, outcome |-> "none", error |-> NoError]

\* res.status(status).json(obj)
Response(status, obj) == [status |-> status, body |-> Json(obj)]

Log(level, text) == [level |-> level, text |-> text]

\* the handler of slot r ran to its end, sending the responses rs
Finish(r, ep, body, rs, lines) ==
  reqs' = [reqs EXCEPT ![r] = [@ EXCEPT !.st = "done", !.ep = ep, !.body = body,
                                 !.via = "handler",
                                 !.responses = @ \o rs,
                                 !.console = @ \o lines]]

\* Suspend with isMiraRelated kept in one module-level variable
Suspend_sharedFlag(r, ep, body, prompt, mira, lines) ==
  reqs' = [x \in Slots |->
             IF x = r
             THEN [reqs[x] EXCEPT !.st = "awaitGen", !.ep = ep, !.body = body,
                                  !.via = "handler",
                                  !.prompt = prompt, !.isMira = mira,
                                  !.genCalls = @ + 1,
                                  !.console = @ \o lines]
             ELSE [reqs[x] EXCEPT !.isMira = mira]]

\* the handler of slot r suspended at `await model.generateContent(prompt)`
Suspend(r, ep, body, prompt, mira, lines) ==
  reqs' = [reqs EXCEPT ![r] = [@ EXCEPT !.st = "awaitGen", !.ep = ep, !.body = body,
                                 !.via = "handler",
                                 !.prompt = prompt, !.isMira = mira,
                                 !.genCalls = @ + 1,
                                 !.console = @ \o lines]]

\* the continuation of slot r after the generation call settled
Settle(r, outcome, err, rs, lines) ==
  reqs' = [reqs EXCEPT ![r] = [@ EXCEPT !.st = "done", !.outcome = outcome,
                                 !.error = err,
                                 !.responses = @ \o rs,
                                 !.console = @ \o lines]]

\* requests are numbered in the order of their arrival
Arrives(r) ==
  /\ reqs[r].st = "idle"
  /\ IF r = 1 THEN TRUE ELSE reqs[r - 1].st # "idle"

\* chatValidation testing `message === undefined` instead of `!message`
chatValidation_undefinedOnly(body) ==
  IF body.message = Undef
  THEN <<Response(400, [error |-> Lit("Message is required")])>>
  ELSE <<>>

\* app.post('/api/chat'): up to the first await
chatValidation(body) ==
  IF ~Truthy(body.message)
  THEN <<Response(400, [error |-> Lit("Message is required")])>>
  ELSE <<>>

\* building the prompt of /api/chat throws
chatPromptThrows(body) ==
  Throws(body.message) \/ (Truthy(body.context) /\ Throws(body.context))

\* chatCatch that logs and sends nothing
chatCatch_silent(env, err) == <<>>

\* app.post('/api/chat'): the catch block
chatCatch(env, err) ==
  <<Response(500, [error |-> Lit("I'm having trouble understanding right now. Please try again."),
                   debug |-> IF env = "development" THEN Str(err.message) ELSE Undef])>>

PostChat(r, body) ==
  /\ Arrives(r)
  /\ IF chatValidation(body) # <<>>
     THEN Finish(r, "chat", body, chatValidation(body),
                 <<Log("log", <<"Received chat message:">>),
                   Log("log", <<"Error: Message is required">>)>>)
     ELSE IF chatPromptThrows(body)
     THEN Finish(r, "chat", body, chatCatch(nodeEnv, TypeErrorPrimitive),
                 <<Log("log", <<"Received chat message:">>),
                   Log("log", <<"Processing message with Gemini AI...">>),
                   Log("error", <<"Chat error details:">> \o TypeErrorPrimitive.message
                                \o TypeErrorPrimitive.stack)>>)
     ELSE Suspend(r, "chat", body, chatPrompt(body.message, body.context), FALSE,
                  <<Log("log", <<"Received chat message:">>),
                    Log("log", <<"Processing message with Gemini AI...">>)>>)
  /\ UNCHANGED <<server, client, view, shell>>

\* app.post('/api/chat'): after the awaits, res.json({response, timestamp})
chatSuccess(text) ==
  <<Response(200, [response |-> text, timestamp |-> toISOString])>>

ChatGenerated(r, text) ==
  /\ upstream = "ok"
  /\ reqs[r].st = "awaitGen"
  /\ reqs[r].ep = "chat"
  /\ Settle(r, "resolved", NoError, chatSuccess(text),
            <<Log("log", <<"AI Response generated:">> \o toStr(text))>>)
  /\ UNCHANGED <<server, client, view, shell>>

ChatCatch(r, err) ==
  /\ upstream = "failing"
  /\ reqs[r].st = "awaitGen"
  /\ reqs[r].ep = "chat"
  /\ Settle(r, "rejected", err, chatCatch(nodeEnv, err),
            <<Log("error", <<"Chat error details:">> \o err.message \o err.stack)>>)
  /\ UNCHANGED <<server, client, view, shell>>

\* memoryLaneCatch without .status(500)
memoryLaneCatch_noStatus ==
  <<Response(200, [error |-> Lit("Let's try talking about memories again in a moment.")])>>

\* app.post('/api/memory-lane'): the catch block
memoryLaneCatch ==
  <<Response(500, [error |-> Lit("Let's try talking about memories again in a moment.")])>>

\* building the prompt of /api/memory-lane throws
memoryPromptThrows(mira, body) ==
  IF mira THEN Throws(body.query)
  ELSE \/ Truthy(body.memoryType) /\ Throws(body.memoryType)
       \/ Truthy(body.query) /\ Throws(body.query)

\* app.post('/api/memory-lane'): up to the first await
PostMemoryLane(r, body) ==
  /\ Arrives(r)
  /\ LET m == isMiraRelated(body.query)
         line == Log("log", <<"Memory Lane request:">>)
     IN IF m = "TypeError" \/ memoryPromptThrows(m = "true", body)
        THEN Finish(r, "memory-lane", body, memoryLaneCatch,
                    <<line, Log("error", <<"Memory Lane error:", "TypeError">>)>>)
        ELSE Suspend(r, "memory-lane", body,
                     memoryPrompt(m = "true", body.query, body.memoryType),
                     m = "true", <<line>>)
  /\ UNCHANGED <<server, client, view, shell>>

\* app.post('/api/memory-lane'): after the awaits
memoryLaneSuccess(text, mira, memoryType) ==
  <<Response(200, [response |-> text,
                   suggestions |-> Arr(memorySuggestions(mira)),
                   memoryType |-> OrElse(memoryType, Lit("general")),
                   timestamp |-> toISOString])>>

MemoryLaneGenerated(r, text) ==
  /\ upstream = "ok"
  /\ reqs[r].st = "awaitGen"
  /\ reqs[r].ep = "memory-lane"
  /\ Settle(r, "resolved", NoError,
            memoryLaneSuccess(text, reqs[r].isMira, reqs[r].body.memoryType), <<>>)
  /\ UNCHANGED <<server, client, view, shell>>

MemoryLaneCatch(r, err) ==
  /\ upstream = "failing"
  /\ reqs[r].st = "awaitGen"
  /\ reqs[r].ep = "memory-lane"
  /\ Settle(r, "rejected", err, memoryLaneCatch,
            <<Log("error", <<"Memory Lane error:">> \o err.message \o err.stack)>>)
  /\ UNCHANGED <<server, client, view, shell>>

\* spotifyHandler rejecting a request without query
spotifyHandler_validating(body) ==
  IF ~Truthy(body.query)
  THEN <<Response(400, [error |-> Lit("Query is required")])>>
  ELSE <<Response(200, [response |-> spotifyResponse(body.action, body.query, body.mood),
                        suggestions |-> OrElse(musicSuggestions(body.mood),
                                               musicSuggestions(Lit("happy"))),
                        playlists |-> playlistSuggestions,
                        action |-> OrElse(body.action, Lit("browse")),
                        timestamp |-> toISOString])>>

\* app.post('/api/spotify'): no await; res.json of the try block
spotifyHandler(body) ==
  <<Response(200, [response |-> spotifyResponse(body.action, body.query, body.mood),
                   suggestions |-> OrElse(musicSuggestions(body.mood),
                                          musicSuggestions(Lit("happy"))),
                   playlists |-> playlistSuggestions,
                   action |-> OrElse(body.action, Lit("browse")),
                   timestamp |-> toISOString])>>

\* the try block of /api/spotify throws: an interpolation of the response
\* text or the property key musicSuggestions[mood]
spotifyThrows(body) ==
  \/ body.action = Lit("search") /\ Throws(body.query)
  \/ body.action = Lit("mood") /\ Throws(body.mood)
  \/ Throws(body.mood)

\* app.post('/api/spotify'): the catch block
spotifyCatch ==
  <<Response(500, [error |-> Lit("Music is taking a short break. Let's try again soon.")])>>

PostSpotify(r, body) ==
  /\ Arrives(r)
  /\ IF spotifyThrows(body)
     THEN Finish(r, "spotify", body, spotifyCatch,
                 <<Log("log", <<"Spotify request:">>),
                   Log("error", <<"Spotify error:", "TypeError">>)>>)
     ELSE Finish(r, "spotify", body, spotifyHandler(body),
                 <<Log("log", <<"Spotify request:">>)>>)
  /\ UNCHANGED <<server, client, view, shell>>

\* testMessageHandler with the echo template lacking its quotation marks
testMessageHandler_noQuotes(body) ==
  <<Response(200, [received |-> body.message,
                   echo |-> Str(<<"You said: ">> \o toStr(body.message)),
                   status |-> Lit("Message captured successfully"),
                   timestamp |-> toISOString])>>

\* app.post('/api/test-message')
testMessageHandler(body) ==
  <<Response(200, [received |-> body.message,
                   echo |-> Str(<<"You said: \"">> \o toStr(body.message) \o <<"\"">>),
                   status |-> Lit("Message captured successfully"),
                   timestamp |-> toISOString])>>

\* app.use((err, req, res, next) => ...)
errorMiddleware ==
  <<Response(500, [error |-> Lit("Something went wrong. Please try again.")])>>

\* the handler has no try block: an exception of the echo template goes to
\* the error middleware
PostTestMessage(r, body) ==
  /\ Arrives(r)
  /\ IF Throws(body.message)
     THEN reqs' = [reqs EXCEPT ![r] = [@ EXCEPT !.st = "done", !.ep = "test-message",
                                         !.body = body, !.via = "middleware",
                                         !.responses = @ \o errorMiddleware,
                                         !.console = @ \o
                                           <<Log("log", <<"Test message received:">>),
                                             Log("error", TypeErrorPrimitive.stack)>>]]
     ELSE Finish(r, "test-message", body, testMessageHandler(body),
                 <<Log("log", <<"Test message received:">>)>>)
  /\ UNCHANGED <<server, client, view, shell>>

\* app.get('/api/health')
healthHandler ==
  <<Response(200, [status |-> Lit("OK"),
                   message |-> Lit("Dementia Chat API is running"),
                   timestamp |-> toISOString])>>

GetHealth(r) ==
  /\ Arrives(r)
  /\ Finish(r, "health", NoBody, healthHandler, <<>>)
  /\ UNCHANGED <<server, client, view, shell>>

\* express.json() could not parse the body of a POST: the route handler is
\* not entered
MalformedBody(r, ep) ==
  /\ Arrives(r)
  /\ reqs' = [reqs EXCEPT ![r] = [@ EXCEPT !.st = "done", !.ep = ep,
                                    !.via = "middleware",
                                    !.responses = @ \o errorMiddleware,
                                    !.console = @ \o <<Log("error", <<"SyntaxError">>)>>]]
  /\ UNCHANGED <<server, client, view, shell>>

\* the generation service goes down / comes back
UpstreamFails ==
  /\ upstream = "ok"
  /\ upstream' = "failing"
  /\ UNCHANGED <<nodeEnv, reqs, client, view, shell>>

UpstreamRecovers ==
  /\ upstream = "failing"
  /\ upstream' = "ok"
  /\ UNCHANGED <<nodeEnv, reqs, client, view, shell>>

\* ------------------------------------------------------------- inputs
Hi == Str(<<"h", "i">>)

ChatBodies ==
  {[NoBody EXCEPT !.message = m, !.context = c] :
     m \in {Undef, Str(<<>>), Hi}, c \in {Undef, Lit("morning")}}
  \cup {[NoBody EXCEPT !.message = BadObj]}

MemoryBodies ==
  {[NoBody EXCEPT !.query = q] :
     q \in {Undef, Str(<<>>), Hi, Str(<<"R", "e", "d">>), Num(7)}}
  \cup {[NoBody EXCEPT !.memoryType = BadObj]}

SpotifyBodies ==
  {[NoBody EXCEPT !.action = a, !.query = q, !.mood = m] :
     a \in {Undef, Lit("search")}, q \in {Undef, Hi}, m \in {Undef, Lit("calm")}}
  \cup {[NoBody EXCEPT !.mood = BadObj]}

TestBodies == {[NoBody EXCEPT !.message = m] : m \in {Undef, Hi, BadObj}}

PostEndpoints == {"chat", "memory-lane", "spotify", "test-message"}

\* response.text() of the generation service
Texts == {Lit("That sounds lovely.")}

\* exceptions of the generation call
Errors ==
  {[message |-> <<"API key not valid">>, stack |-> <<"at generateContent (index.js:57)">>],
   [message |-> <<"fetch failed">>, stack |-> <<"at generateContent (index.js:57)">>],
   [message |-> <<"fetch failed">>, stack |-> <<"at processTicksAndRejections">>]}

\* ------------------------------------------------------------- Spec
\* the server after app.listen, no request received yet
ServerInit(envs) ==
  /\ nodeEnv \in envs
  /\ upstream = "ok"
  /\ reqs = [r \in Slots |-> IdleReq]

\* the welcome message of the mount effect
welcomeMessage ==
  [id |-> <<"1">>,
   text |-> <<"Hello! I'm here to help you. You can chat with me, explore memories, or listen to music. How can I help you today?">>,
   isUser |-> FALSE]

\* the App component after its first render and its mount effect; the clock
\* counts the milliseconds since then
ViewInit ==
  /\ messages = <<welcomeMessage>>
  /\ inputText = <<>>
  /\ isRecording = FALSE
  /\ isLoading = FALSE
  /\ activeMode = "chat"
  /\ now = 0
  /\ inFlight = <<>>
  /\ awaiting = {}

NoWindow(kind) == [kind |-> kind, id |-> 0]
Window(id) == [kind |-> "window", id |-> id]

\* the Electron main process after its module body has run
ShellInit(platforms, externals) ==
  /\ platform \in platforms
  /\ external \in externals
  /\ phase = "loaded"
  /\ testConnection = "none"
  /\ children = <<>>
  /\ serverProcess = 0
  /\ mainWindow = NoWindow("undefined")
  /\ windows = {}
  /\ created = 0
  /\ lastClick = [item |-> "", outcome |-> "none"]

\* the voice service after its constructor
VoiceInit(platforms) ==
  /\ recognition \in platforms
  /\ isListening = FALSE
  /\ handlers = 0
  /\ session = "idle"
  /\ sessionCall = 0
  /\ calls = <<>>

Init ==
  /\ ServerInit({"development", "production"})
  /\ VoiceInit({"SpeechRecognition"})
  /\ ViewInit
  /\ ShellInit({"darwin"}, {FALSE})

Next ==
  \/ \E r \in Slots, b \in ChatBodies : PostChat(r, b)
  \/ \E r \in Slots, b \in MemoryBodies : PostMemoryLane(r, b)
  \/ \E r \in Slots, b \in SpotifyBodies : PostSpotify(r, b)
  \/ \E r \in Slots, b \in TestBodies : PostTestMessage(r, b)
  \/ \E r \in Slots : GetHealth(r)
  \/ \E r \in Slots, ep \in PostEndpoints : MalformedBody(r, ep)
  \/ \E r \in Slots, t \in Texts : ChatGenerated(r, t)
  \/ \E r \in Slots, e \in Errors : ChatCatch(r, e)
  \/ \E r \in Slots, t \in Texts : MemoryLaneGenerated(r, t)
  \/ \E r \in Slots, e \in Errors : MemoryLaneCatch(r, e)
  \/ UpstreamFails
  \/ UpstreamRecovers

Spec == Init /\ [][Next]_vars

\* ------------------------------------------- SpecMemory: /api/memory-lane
\* one request to /api/memory-lane, its query drawn from short strings over
\* QueryAlphabet and from every keyword, in several letter cases, with and
\* without surrounding text, and with its last character missing
QueryAlphabet == {"r", "e", "d", "E", "D", "x"}

ShortQueries == UNION {[1..n -> QueryAlphabet] : n \in 0..MaxQueryLen}

toUpperChar(c) ==
  IF \E i \in 1..26 : LowerCase[i] = c
  THEN UpperCase[CHOOSE i \in 1..26 : LowerCase[i] = c]
  ELSE c

KeywordForms(kw) ==
  { kw,
    [i \in 1..Len(kw) |-> toUpperChar(kw[i])],
    [i \in 1..Len(kw) |-> IF i = 1 THEN toUpperChar(kw[i]) ELSE kw[i]],
    [i \in 1..Len(kw) |-> IF i = Len(kw) THEN toUpperChar(kw[i]) ELSE kw[i]],
    SubSeq(kw, 1, Len(kw) - 1) }

Pads == {<<>>, <<"x">>, <<"o", "h", " ">>}

KeywordQueries ==
  {pre \o form \o post :
     pre \in Pads, post \in Pads,
     form \in UNION {KeywordForms(Keywords[k]) : k \in 1..Len(Keywords)}}

RichMemoryBodies ==
  {[NoBody EXCEPT !.query = q, !.memoryType = mt] :
     q \in {Undef, Null, Num(0), Num(7)}
           \cup {Str(t) : t \in ShortQueries \cup KeywordQueries},
     mt \in {Undef, Lit("childhood")}}
  \cup {[NoBody EXCEPT !.query = q, !.memoryType = BadObj] :
          q \in {Undef, Null, Str(<<>>), Str(<<"x">>), Str(<<"R", "E", "D">>)}}

NextMemory ==
  \/ \E b \in RichMemoryBodies : PostMemoryLane(1, b)
  \/ \E t \in Texts : MemoryLaneGenerated(1, t)
  \/ \E e \in Errors : MemoryLaneCatch(1, e)
  \/ UpstreamFails
  \/ UpstreamRecovers

SpecMemory == Init /\ [][NextMemory]_vars

\* components/MemoryCapsule.tsx: memoryData.prompts, each handed to
\* onMemorySelect when its button is clicked
CapsulePrompts ==
  { <<"T", "e", "l", "l", " ", "m", "e", " ", "a", "b", "o", "u", "t", " ",
      "t", "h", "i", "s", " ", "s", "p", "e", "c", "i", "a", "l", " ", "d",
      "a", "y", " ", "w", "i", "t", "h", " ", "M", "i", "r", "a">>,
    <<"D", "o", " ", "y", "o", "u", " ", "r", "e", "m", "e", "m", "b", "e",
      "r", " ", "w", "e", "a", "r", "i", "n", "g", " ", "t", "h", "o", "s",
      "e", " ", "m", "a", "t", "c", "h", "i", "n", "g", " ", "r", "e", "d",
      " ", "s", "c", "a", "r", "v", "e", "s", "?">>,
    <<"H", "o", "w", " ", "d", "i", "d", " ", "i", "t", " ", "f", "e", "e",
      "l", " ", "t", "o", " ", "g", "e", "t", " ", "s", "u", "c", "h", " ",
      "a", " ", "b", "i", "g", " ", "h", "u", "g", " ", "f", "r", "o", "m",
      " ", "M", "i", "r", "a", "?">>,
    <<"W", "h", "a", "t", " ", "m", "a", "d", "e", " ", "y", "o", "u", " ",
      "b", "o", "t", "h", " ", "s", "m", "i", "l", "e", " ", "s", "o", " ",
      "b", "r", "i", "g", "h", "t", "l", "y", " ", "t", "h", "a", "t", " ",
      "d", "a", "y", "?">>,
    <<"W", "h", "a", "t", " ", "w", "a", "s", " ", "i", "t", " ", "l", "i",
      "k", "e", " ", "s", "p", "e", "n", "d", "i", "n", "g", " ", "t", "i",
      "m", "e", " ", "t", "o", "g", "e", "t", "h", "e", "r", " ", "i", "n",
      " ", "t", "h", "e", " ", "a", "u", "t", "u", "m", "n", "?">> }

\* the prompts as MEMORY_CAPSULE_FEATURE.md lists them
DocumentedPrompts ==
  { <<"T", "e", "l", "l", " ", "m", "e", " ", "a", "b", "o", "u", "t", " ",
      "t", "h", "i", "s", " ", "s", "p", "e", "c", "i", "a", "l", " ", "d",
      "a", "y", " ", "w", "i", "t", "h", " ", "M", "i", "r", "a">>,
    <<"W", "h", "a", "t", " ", "w", "a", "s", " ", "y", "o", "u", "r", " ",
      "f", "a", "v", "o", "r", "i", "t", "e", " ", "t", "h", "i", "n", "g",
      " ", "a", "b", "o", "u", "t", " ", "t", "h", "i", "s", " ", "v", "i",
      "s", "i", "t", "?">>,
    <<"H", "o", "w", " ", "d", "i", "d", " ", "i", "t", " ", "f", "e", "e",
      "l", " ", "t", "o", " ", "s", "p", "e", "n", "d", " ", "t", "i", "m",
      "e", " ", "w", "i", "t", "h", " ", "M", "i", "r", "a", "?">>,
    <<"W", "h", "a", "t", " ", "g", "a", "m", "e", "s", " ", "d", "i", "d",
      " ", "y", "o", "u", " ", "p", "l", "a", "y", " ", "t", "o", "g", "e",
      "t", "h", "e", "r", "?">>,
    <<"W", "h", "a", "t", " ", "d", "i", "d", " ", "y", "o", "u", " ", "a",
      "n", "d", " ", "M", "i", "r", "a", " ", "t", "a", "l", "k", " ", "a",
      "b", "o", "u", "t", "?">> }

CapsuleBodies ==
  {[NoBody EXCEPT !.query = Str(q), !.memoryType = mt] :
     q \in CapsulePrompts \cup DocumentedPrompts,
     mt \in {Undef, Lit("family")}}

\* one /api/memory-lane request whose query is a prompt of the capsule
NextCapsule ==
  \/ \E b \in CapsuleBodies : PostMemoryLane(1, b)
  \/ \E t \in Texts : MemoryLaneGenerated(1, t)
  \/ \E e \in Errors : MemoryLaneCatch(1, e)
  \/ UpstreamFails
  \/ UpstreamRecovers

SpecCapsule == Init /\ [][NextCapsule]_vars

\* The handlers that answer without an await, one request with every shape
\* of body: /api/spotify, /api/test-message, /api/health.
Moods ==
  {Undef, Null, Num(7), BadObj, Str(<<>>),
   Lit("happy"), Lit("calm"), Lit("nostalgic"), Lit("energetic"),
   Lit("sad"), Lit("toString"), Lit("constructor"), Lit("__proto__")}

RichSpotifyBodies ==
  {[NoBody EXCEPT !.action = a, !.query = q, !.mood = m] :
     a \in {Undef, Lit("search"), Lit("mood"), Lit("play")},
     q \in {Undef, Hi, BadObj},
     m \in Moods}

RichTestBodies ==
  {[NoBody EXCEPT !.message = m] :
     m \in {Undef, Null, Num(7), BadObj} \cup {Str(t) : t \in ShortQueries}}

NextSync ==
  \/ \E b \in RichSpotifyBodies : PostSpotify(1, b)
  \/ \E b \in RichTestBodies : PostTestMessage(1, b)
  \/ GetHealth(1)
  \/ \E ep \in {"spotify", "test-message"} : MalformedBody(1, ep)

SpecSync == Init /\ [][NextSync]_vars

\* ------------------------------------------- services/voiceService.ts
Pending == [state |-> "pending", value |-> <<>>]
Resolved(text) == [state |-> "resolved", value |-> text]
Rejected(message) == [state |-> "rejected", value |-> message]

\* resolve(v) / reject(e) of the promise of call c: no effect once settled
SettleCall(c, outcome) ==
  [calls EXCEPT ![c] = IF @.state = "pending" THEN outcome ELSE @]

\* the switch of recognition.onerror
errorMessage(code) ==
  CASE code = "no-speech" -> <<"No speech was detected. Please try again.">>
    [] code = "audio-capture" ->
         <<"No microphone was found. Please check your microphone connection.">>
    [] code = "not-allowed" ->
         <<"Microphone permission was denied. Please allow microphone access and try again.">>
    [] code = "network" ->
         <<"Network error occurred. Please check your internet connection.">>
    [] OTHER -> <<"Speech recognition error: ", code>>

\* startListening without the `if (this.isListening)` test
startListening_noGuard ==
  /\ Len(calls) < MaxCalls
  /\ LET c == Len(calls) + 1 IN
     IF recognition = "null"
     THEN /\ calls' = Append(calls, Rejected(<<"Speech recognition not supported">>))
          /\ UNCHANGED <<isListening, handlers, session, sessionCall>>
     ELSE /\ handlers' = c
          /\ IF session = "idle"
             THEN /\ session' = "active"
                  /\ sessionCall' = c
                  /\ isListening' = TRUE
                  /\ calls' = Append(calls, Pending)
             ELSE /\ isListening' = FALSE
                  /\ calls' = Append(calls, Rejected(<<"Failed to start speech recognition">>))
                  /\ UNCHANGED <<session, sessionCall>>
  /\ UNCHANGED recognition

\* VoiceService.startListening: recognition.start() throws InvalidStateError
\* while the platform session has not ended
startListening ==
  /\ Len(calls) < MaxCalls
  /\ LET c == Len(calls) + 1 IN
     IF recognition = "null"
     THEN /\ calls' = Append(calls, Rejected(<<"Speech recognition not supported">>))
          /\ UNCHANGED <<isListening, handlers, session, sessionCall>>
     ELSE IF isListening
     THEN /\ calls' = Append(calls, Rejected(<<"Already listening">>))
          /\ UNCHANGED <<isListening, handlers, session, sessionCall>>
     ELSE /\ handlers' = c
          /\ IF session = "idle"
             THEN /\ session' = "active"
                  /\ sessionCall' = c
                  /\ isListening' = TRUE
                  /\ calls' = Append(calls, Pending)
             ELSE /\ isListening' = FALSE
                  /\ calls' = Append(calls, Rejected(<<"Failed to start speech recognition">>))
                  /\ UNCHANGED <<session, sessionCall>>
  /\ UNCHANGED recognition

\* VoiceService.stopListening
stopListening ==
  /\ IF recognition # "null" /\ isListening
     THEN /\ session' = "stopping"
          /\ isListening' = FALSE
     ELSE UNCHANGED <<session, isListening>>
  /\ UNCHANGED <<recognition, handlers, sessionCall, calls>>

\* recognition.onresult, fired by the platform with a transcript
onresult(transcript) ==
  /\ session \in {"active", "stopping"}
  /\ session' = "closing"
  /\ isListening' = FALSE
  /\ calls' = SettleCall(handlers, Resolved(transcript))
  /\ UNCHANGED <<recognition, handlers, sessionCall, server, reqs, view, shell>>

\* recognition.onerror, fired by the platform with an error code
onerror(code) ==
  /\ session \in {"active", "stopping"}
  /\ session' = "closing"
  /\ isListening' = FALSE
  /\ calls' = SettleCall(handlers, Rejected(errorMessage(code)))
  /\ UNCHANGED <<recognition, handlers, sessionCall, server, reqs, view, shell>>

\* recognition.onend, fired by the platform when the session is over, with
\* or without a result or an error before it
onend ==
  /\ session # "idle"
  /\ session' = "idle"
  /\ isListening' = FALSE
  /\ UNCHANGED <<recognition, handlers, sessionCall, calls, server, reqs, view,
                 shell>>

Transcripts == {<<"h", "i">>, <<" ">>}

ErrorCodes == {"no-speech", "audio-capture", "not-allowed", "network", "aborted"}

InitVoice ==
  /\ ServerInit({"production"})
  /\ VoiceInit({"SpeechRecognition", "null"})
  /\ ViewInit
  /\ ShellInit({"darwin"}, {FALSE})

\* a caller of the service invokes startListening / stopListening
CallStartListening ==
  /\ startListening
  /\ UNCHANGED <<server, reqs, view, shell>>

CallStopListening ==
  /\ stopListening
  /\ UNCHANGED <<server, reqs, view, shell>>

NextVoice ==
  \/ CallStartListening
  \/ CallStopListening
  \/ \E t \in Transcripts : onresult(t)
  \/ \E code \in ErrorCodes : onerror(code)
  \/ onend

SpecVoice == InitVoice /\ [][NextVoice]_vars

\* --------------------------------------------------- client/src/App.tsx
WhiteSpace == {" ", "\n", "\t"}

\* String.prototype.trim
trim(s) ==
  LET ink == {i \in 1..Len(s) : s[i] \notin WhiteSpace} IN
  IF ink = {} THEN <<>>
  ELSE SubSeq(s, CHOOSE i \in ink : \A j \in ink : i <= j,
                 CHOOSE i \in ink : \A j \in ink : j <= i)

\* Array.prototype.join
join(items, sep) ==
  [i \in 1..(IF Len(items) = 0 THEN 0 ELSE 2 * Len(items) - 1) |->
     IF i % 2 = 1 THEN items[(i + 1) \div 2] ELSE sep]

\* addMessage putting the new message in front: setMessages(prev => [message, ...prev])
addMessage_newestFirst(list, text, isUser) ==
  <<[id |-> <<"t+", now>>, text |-> text, isUser |-> isUser]>> \o list

\* addMessage: setMessages(prev => [...prev, message]) applied to the list
\* the earlier updaters of the same handler produced; the id is
\* Date.now().toString()
addMessage(list, text, isUser) ==
  Append(list, [id |-> <<"t+", now>>, text |-> text, isUser |-> isUser])

Modes == {"chat", "memory", "spotify"}

\* the switch of handleModeChange
modeMessage(mode) ==
  CASE mode = "chat" -> <<"Ready to chat! Ask me anything you'd like to know.">>
    [] mode = "memory" ->
         <<"Let's explore some wonderful memories together. What would you like to remember?">>
    [] mode = "spotify" ->
         <<"Time for some music! What songs would you like to hear today?">>

unsupportedMessage ==
  <<"Voice recognition is not supported in your browser. Please try typing instead.">>

\* how often the user has submitted, changed the mode and pressed the
\* microphone so far, read off the message list and the voice service
Submissions == Cardinality({i \in DOMAIN messages : messages[i].isUser})
ModeChanges ==
  Cardinality({i \in DOMAIN messages :
                 /\ ~messages[i].isUser
                 /\ \E mode \in Modes : messages[i].text = modeMessage(mode)})
Recordings ==
  Len(calls) + Cardinality({i \in DOMAIN messages : messages[i].text = unsupportedMessage})
UserActions == Submissions + ModeChanges + Recordings

\* the input field rendered without disabled={isLoading}
InputEnabled_always == TRUE

\* what the rendered controls allow
InputEnabled == ~isLoading
VoiceButtonEnabled == ~isLoading
SendButtonEnabled == trim(inputText) # <<>> /\ ~isLoading

\* a settled promise that startRecording awaits: its continuation runs
\* before the next event is handled
MicrotaskPending == \E c \in awaiting : calls[c].state # "pending"

\* the user types into, or clears, the input field
onChange(text) ==
  /\ InputEnabled
  /\ ~MicrotaskPending
  /\ text # inputText
  /\ inputText' = text
  /\ UNCHANGED <<messages, isRecording, isLoading, activeMode, now, inFlight,
                 awaiting, server, reqs, client, shell>>

\* endpoint without the switch on activeMode
endpoint_chatOnly(mode) == "/chat"

\* the switch of handleSendMessage
endpoint(mode) ==
  CASE mode = "chat" -> "/chat"
    [] mode = "memory" -> "/memory-lane"
    [] mode = "spotify" -> "/spotify"

payload(mode, userMessage) ==
  CASE mode = "chat" -> [NoBody EXCEPT !.message = Str(userMessage)]
    [] mode = "memory" -> [NoBody EXCEPT !.query = Str(userMessage)]
    [] mode = "spotify" -> [NoBody EXCEPT !.action = Lit("search"),
                                          !.query = Str(userMessage)]

\* handleSendMessage without `if (!inputText.trim()) return`
handleSendMessage_noBlankTest ==
  /\ SendButtonEnabled \/ InputEnabled
  /\ ~MicrotaskPending
  /\ UserActions < MaxUserActions
  /\ inputText' = <<>>
  /\ messages' = addMessage(messages, trim(inputText), TRUE)
  /\ isLoading' = TRUE
  /\ inFlight' = Append(inFlight, [endpoint |-> endpoint(activeMode),
                                   payload |-> payload(activeMode, trim(inputText))])
  /\ UNCHANGED <<isRecording, activeMode, now, awaiting, server, reqs, client,
                 shell>>

\* handleSendMessage up to `await axios.post(...)`, invoked by the send
\* button or by Enter in the input field
handleSendMessage ==
  /\ SendButtonEnabled \/ InputEnabled
  /\ ~MicrotaskPending
  /\ trim(inputText) # <<>>
  /\ UserActions < MaxUserActions
  /\ inputText' = <<>>
  /\ messages' = addMessage(messages, trim(inputText), TRUE)
  /\ isLoading' = TRUE
  /\ inFlight' = Append(inFlight, [endpoint |-> endpoint(activeMode),
                                   payload |-> payload(activeMode, trim(inputText))])
  /\ UNCHANGED <<isRecording, activeMode, now, awaiting, server, reqs, client,
                 shell>>

\* axios could not reach the server
networkError == [status |-> 0, body |-> Json([message |-> Lit("Network Error")])]

\* the ways axios.post can settle: the answers of the route, as the server
\* gives them, or no answer
axiosReplies(request) ==
  LET b == request.payload IN
  {networkError} \cup
  (CASE request.endpoint = "/chat" ->
          {chatSuccess(t)[1] : t \in Texts}
          \cup {chatCatch(nodeEnv, e)[1] : e \in Errors}
          \cup {chatValidation(b)[i] : i \in 1..Len(chatValidation(b))}
     [] request.endpoint = "/memory-lane" ->
          {memoryLaneSuccess(t, isMiraRelated(b.query) = "true", b.memoryType)[1] :
             t \in Texts}
          \cup {memoryLaneCatch[1]}
     [] request.endpoint = "/spotify" ->
          {spotifyHandler(b)[1]})

apology == <<"I'm sorry, I'm having trouble right now. Please try again in a moment.">>

\* replyMessages whose catch block shows the error text it caught
replyMessages_showsError(list, reply) ==
  IF reply.status \in 200..299
  THEN LET data == reply.body
           replied == addMessage(list, data.response.s, FALSE)
       IN IF /\ "suggestions" \in DOMAIN data
             /\ data.suggestions.t = "array"
             /\ Len(data.suggestions.s) > 0
          THEN addMessage(replied,
                          <<"Here are some suggestions:\n">>
                            \o join(data.suggestions.s, "\n"),
                          FALSE)
          ELSE replied
  ELSE addMessage(list,
                  IF "error" \in DOMAIN reply.body
                  THEN reply.body.error.s ELSE reply.body.message.s,
                  FALSE)

\* the messages handleSendMessage adds once axios.post has settled
replyMessages(list, reply) ==
  IF reply.status \in 200..299
  THEN LET data == reply.body
           replied == addMessage(list, data.response.s, FALSE)
       IN IF /\ "suggestions" \in DOMAIN data
             /\ data.suggestions.t = "array"
             /\ Len(data.suggestions.s) > 0
          THEN addMessage(replied,
                          <<"Here are some suggestions:\n">>
                            \o join(data.suggestions.s, "\n"),
                          FALSE)
          ELSE replied
  ELSE addMessage(list, apology, FALSE)

\* handleSendMessage after the await: the i-th pending post settles
handleSendMessageResumes(i) ==
  /\ i \in 1..Len(inFlight)
  /\ ~MicrotaskPending
  /\ \E reply \in axiosReplies(inFlight[i]) :
       messages' = replyMessages(messages, reply)
  /\ isLoading' = FALSE
  /\ inFlight' = SubSeq(inFlight, 1, i - 1) \o SubSeq(inFlight, i + 1, Len(inFlight))
  /\ UNCHANGED <<inputText, isRecording, activeMode, now, awaiting, server, reqs,
                 client, shell>>

\* VoiceService.isSupported reporting a recognition object in every browser
isSupported_always == TRUE

\* VoiceService.isSupported
isSupported == recognition # "null"

\* startRecording up to `await voiceService.startListening()`, invoked by
\* the voice button while it shows the microphone
startRecording ==
  /\ VoiceButtonEnabled
  /\ ~isRecording
  /\ ~MicrotaskPending
  /\ UserActions < MaxUserActions
  /\ IF ~isSupported
     THEN /\ messages' = addMessage(messages, unsupportedMessage, FALSE)
          /\ UNCHANGED <<isRecording, isLoading, awaiting, client>>
     ELSE /\ isRecording' = TRUE
          /\ isLoading' = TRUE
          /\ startListening
          /\ awaiting' = awaiting \cup {Len(calls) + 1}
          /\ UNCHANGED messages
  /\ UNCHANGED <<inputText, activeMode, now, inFlight, server, reqs, shell>>

\* startRecording after the await: the promise of call c has settled
startRecordingResumes(c) ==
  /\ c \in awaiting
  /\ calls[c].state # "pending"
  /\ IF calls[c].state = "resolved"
     THEN IF trim(calls[c].value) # <<>>
          THEN /\ inputText' = calls[c].value
               /\ messages' = addMessage(messages,
                                         <<"I heard: \"">> \o calls[c].value \o <<"\"">>,
                                         FALSE)
          ELSE UNCHANGED <<inputText, messages>>
     ELSE /\ messages' = addMessage(messages, calls[c].value, FALSE)
          /\ UNCHANGED inputText
  /\ isRecording' = FALSE
  /\ isLoading' = FALSE
  /\ awaiting' = awaiting \ {c}
  /\ UNCHANGED <<activeMode, now, inFlight, server, reqs, client, shell>>

\* stopRecording, invoked by the voice button while it shows the stop sign
stopRecording ==
  /\ VoiceButtonEnabled
  /\ isRecording
  /\ stopListening
  /\ isRecording' = FALSE
  /\ isLoading' = FALSE
  /\ UNCHANGED <<messages, inputText, activeMode, now, inFlight, awaiting, server,
                 reqs, shell>>

\* handleModeChange, invoked by a sidebar button
handleModeChange(mode) ==
  /\ ~MicrotaskPending
  /\ UserActions < MaxUserActions
  /\ activeMode' = mode
  /\ messages' = addMessage(messages, modeMessage(mode), FALSE)
  /\ UNCHANGED <<inputText, isRecording, isLoading, now, inFlight, awaiting, server,
                 reqs, client, shell>>

\* a millisecond passes
Tick ==
  /\ now < MaxClock
  /\ now' = now + 1
  /\ UNCHANGED <<messages, inputText, isRecording, isLoading, activeMode, inFlight,
                 awaiting, server, reqs, client, shell>>

\* what the user types
Typed == {<<>>, <<" ">>, <<"h", "i">>}

InitView ==
  /\ ServerInit({"production"})
  /\ VoiceInit({"SpeechRecognition", "null"})
  /\ ViewInit
  /\ ShellInit({"darwin"}, {FALSE})

NextView ==
  \/ \E text \in Typed : onChange(text)
  \/ handleSendMessage
  \/ \E i \in 1..MaxUserActions : handleSendMessageResumes(i)
  \/ startRecording
  \/ \E c \in 1..MaxCalls : startRecordingResumes(c)
  \/ \E mode \in Modes : handleModeChange(mode)
  \/ \E t \in Transcripts : onresult(t)
  \/ \E code \in ErrorCodes : onerror(code)
  \/ onend
  \/ Tick

SpecView == InitView /\ [][NextView]_vars

\* ------------------------------------------- the Electron main process
\* BrowserWindow.getAllWindows().length
BrowserWindowCount == Cardinality(windows)

\* something answers GET http://localhost:5001/api/health
BackendAnswering ==
  external \/ \E c \in 1..Len(children) : children[c] = "listening"

\* app.whenReady().then(...) up to `await startServer()`: startServer sends
\* the health probe and starts the 3000 ms timer
whenReady ==
  /\ phase = "loaded"
  /\ phase' = "starting"
  /\ testConnection' = "pending"
  /\ UNCHANGED <<platform, external, children, serverProcess, mainWindow, windows,
                 created, lastClick, server, reqs, client, view>>

\* the callback of http.get: a response arrived
testConnectionResponse ==
  /\ phase \in {"starting", "running"}
  /\ testConnection = "pending"
  /\ BackendAnswering
  /\ testConnection' = "answered"
  /\ UNCHANGED <<platform, external, phase, children, serverProcess, mainWindow,
                 windows, created, lastClick, server, reqs, client, view>>

\* testConnection.on('error') answering without a spawn
spawnServer_never(procs) == procs

\* serverProcess = spawn('node', [serverPath], ...)
spawnServer(procs) == Append(procs, "spawning")

\* testConnection.on('error'): the probe failed, whether or not a backend
\* is listening
testConnectionError ==
  /\ phase \in {"starting", "running"}
  /\ testConnection = "pending"
  /\ testConnection' = "errored"
  /\ children' = spawnServer(children)
  /\ serverProcess' = Len(children')
  /\ UNCHANGED <<platform, external, phase, mainWindow, windows, created,
                 lastClick, server, reqs, client, view>>

\* serverProcess.on('error'): the child could not be spawned
serverProcessError(c) ==
  /\ phase \in {"starting", "running"}
  /\ c \in 1..Len(children)
  /\ children[c] = "spawning"
  /\ children' = [children EXCEPT ![c] = "failed"]
  /\ UNCHANGED <<platform, external, phase, testConnection, serverProcess,
                 mainWindow, windows, created, lastClick, server, reqs, client,
                 view>>

\* the child's app.listen succeeded: the port was free
ChildListens(c) ==
  /\ phase \in {"starting", "running"}
  /\ c \in 1..Len(children)
  /\ children[c] = "spawning"
  /\ ~BackendAnswering
  /\ children' = [children EXCEPT ![c] = "listening"]
  /\ UNCHANGED <<platform, external, phase, testConnection, serverProcess,
                 mainWindow, windows, created, lastClick, server, reqs, client,
                 view>>

\* the child ended by itself: the port was taken, or it crashed
ChildExits(c) ==
  /\ phase \in {"starting", "running"}
  /\ c \in 1..Len(children)
  /\ children[c] \in {"spawning", "listening"}
  /\ children' = [children EXCEPT ![c] = "exited"]
  /\ UNCHANGED <<platform, external, phase, testConnection, serverProcess,
                 mainWindow, windows, created, lastClick, server, reqs, client,
                 view>>

\* the backend that was started outside the shell is stopped by its owner
ExternalStops ==
  /\ phase \in {"starting", "running"}
  /\ external
  /\ external' = FALSE
  /\ UNCHANGED <<platform, phase, testConnection, children, serverProcess,
                 mainWindow, windows, created, lastClick, server, reqs, client,
                 view>>

\* createWindow: mainWindow = new BrowserWindow(...)
createWindow ==
  /\ created' = created + 1
  /\ mainWindow' = Window(created + 1)
  /\ windows' = windows \cup {created + 1}

\* the 3000 ms timer of startServer fired: the await returns, then
\* createWindow(), createMenu() and app.on('activate', ...)
startServerResolved ==
  /\ phase = "starting"
  /\ phase' = "running"
  /\ createWindow
  /\ UNCHANGED <<platform, external, testConnection, children, serverProcess,
                 lastClick, server, reqs, client, view>>

\* app.on('before-quit') killing nothing
beforeQuit_killsNothing(procs) == procs

\* app.on('before-quit'): serverProcess.kill() if serverProcess is set; kill
\* has no effect on a child that has ended
beforeQuit(procs) ==
  IF serverProcess # 0 /\ procs[serverProcess] \in {"spawning", "listening"}
  THEN [procs EXCEPT ![serverProcess] = "killed"]
  ELSE procs

\* app.quit(): before-quit, then every window is closed, each running its
\* 'closed' handler, then the process ends
quit ==
  /\ phase' = "exited"
  /\ children' = beforeQuit(children)
  /\ windows' = {}
  /\ mainWindow' = IF windows = {} THEN mainWindow ELSE NoWindow("null")

\* the user quits from the menu, the dock or the window manager
Quit ==
  /\ phase \in {"starting", "running"}
  /\ quit
  /\ UNCHANGED <<platform, external, testConnection, serverProcess, created,
                 lastClick, server, reqs, client, view>>

\* the user closes window w: mainWindow.on('closed') and, when it was the
\* last one, app.on('window-all-closed')
closed(w) ==
  /\ phase = "running"
  /\ w \in windows
  /\ IF windows = {w} /\ platform # "darwin"
     THEN quit
     ELSE /\ windows' = windows \ {w}
          /\ mainWindow' = NoWindow("null")
          /\ UNCHANGED <<phase, children>>
  /\ UNCHANGED <<platform, external, testConnection, serverProcess, created,
                 lastClick, server, reqs, client, view>>

\* app.on('activate'): the dock icon is clicked
activate ==
  /\ phase = "running"
  /\ platform = "darwin"
  /\ created < MaxWindows
  /\ BrowserWindowCount = 0
  /\ createWindow
  /\ UNCHANGED <<platform, external, phase, testConnection, children,
                 serverProcess, lastClick, server, reqs, client, view>>

\* the menu items whose click handler calls a method of mainWindow
WindowItems ==
  {"Reload", "Force Reload", "Toggle Developer Tools", "Actual Size", "Zoom In",
   "Zoom Out", "Toggle Fullscreen"}

\* the menu items that pass mainWindow to dialog.showMessageBox, which
\* accepts null
DialogItems == {"About Chat Helper", "Voice Commands", "Keyboard Shortcuts"}

\* the click handler of a menu item: reading a property of null or
\* undefined throws a TypeError
click(item) ==
  IF item \in WindowItems /\ mainWindow.kind # "window" THEN "TypeError" ELSE "ok"

\* the user clicks a menu item; the application menu is present while a
\* window is open and, on macOS, also while none is
menuClick(item) ==
  /\ phase = "running"
  /\ windows # {} \/ platform = "darwin"
  /\ lastClick' = [item |-> item, outcome |-> click(item)]
  /\ lastClick' # lastClick
  /\ UNCHANGED <<platform, external, phase, testConnection, children,
                 serverProcess, mainWindow, windows, created, server, reqs, client,
                 view>>

InitShell ==
  /\ ServerInit({"production"})
  /\ VoiceInit({"SpeechRecognition"})
  /\ ViewInit
  /\ ShellInit({"darwin", "linux"}, {TRUE, FALSE})

Children == 1..2

NextShell ==
  \/ whenReady
  \/ testConnectionResponse
  \/ testConnectionError
  \/ \E c \in Children : serverProcessError(c)
  \/ \E c \in Children : ChildListens(c)
  \/ \E c \in Children : ChildExits(c)
  \/ ExternalStops
  \/ startServerResolved
  \/ Quit
  \/ \E w \in 1..MaxWindows : closed(w)
  \/ activate
  \/ \E item \in WindowItems \cup DialogItems : menuClick(item)

SpecShell == InitShell /\ [][NextShell]_vars

\* ------------------------------------------------------------- claims
Done(r) == reqs[r].st = "done"
Resp(r) == reqs[r].responses[1]
HasError(resp) ==
  /\ "error" \in DOMAIN resp.body
  /\ resp.body.error.t = "string"
  /\ resp.body.error.s # <<>>
  /\ \A i \in 1..Len(resp.body.error.s) : resp.body.error.s[i] # ""

\* the keywords as the specification lists them
ConfiguredKeywords ==
  { <<"m", "i", "r", "a">>,
    <<"g", "r", "a", "n", "d", "d", "a", "u", "g", "h", "t", "e", "r">>,
    <<"v", "i", "s", "i", "t">>,
    <<"s", "p", "e", "c", "i", "a", "l", " ", "d", "a", "y">>,
    <<"p", "a", "r", "k">>,
    <<"h", "u", "g">>,
    <<"s", "c", "a", "r", "f">>,
    <<"r", "e", "d">>,
    <<"a", "u", "t", "u", "m", "n">>,
    <<"s", "m", "i", "l", "e">> }

SameLetter(a, b) ==
  a = b \/ \E i \in 1..26 : {a, b} = {UpperCase[i], LowerCase[i]}

OccursAt(q, kw, i) ==
  /\ i + Len(kw) <= Len(q)
  /\ \A j \in 1..Len(kw) : SameLetter(q[i + j], kw[j])

ContainsKeyword(q) ==
  \E kw \in ConfiguredKeywords : \E i \in 0..Len(q) : OccursAt(q, kw, i)

QueryText(v) == IF v.t = "string" THEN v.s ELSE <<>>

\* C1: a memory-lane request whose generation call succeeded carries the
\* Mira prompt and the Mira suggestion list if its query contains one of the
\* ten keywords as a case-insensitive substring at any position, and the
\* general prompt and the general suggestion list if it contains none.
C1_KeywordClassification ==
  \A r \in Slots :
    (reqs[r].ep = "memory-lane" /\ reqs[r].outcome = "resolved") =>
      LET q == reqs[r].body.query
          mt == reqs[r].body.memoryType
      IN IF ContainsKeyword(QueryText(q))
         THEN /\ reqs[r].prompt = miraPrompt(q)
              /\ Resp(r).body.suggestions = Arr(miraSuggestions)
         ELSE /\ reqs[r].prompt = generalPrompt(q, mt)
              /\ Resp(r).body.suggestions = Arr(generalSuggestions)

\* a keyword in capitals after other text was classified as Mira-related
C1_Witness ==
  /\ reqs[1].ep = "memory-lane"
  /\ reqs[1].outcome = "resolved"
  /\ reqs[1].body.query = Str(<<"o", "h", " ", "S", "P", "E", "C", "I", "A", "L", " ", "D", "A", "Y", "x">>)
  /\ Resp(1).status = 200
  /\ Resp(1).body.suggestions = Arr(miraSuggestions)

\* C2 (as stated): whenever the generation service is failing, a request
\* answered by /api/chat, /api/memory-lane or /api/spotify is answered with
\* HTTP 500 and a non-empty error string.
C2_Original ==
  [][\A r \in Slots :
       (/\ upstream = "failing"
        /\ reqs[r].st # "done"
        /\ reqs'[r].st = "done"
        /\ reqs'[r].ep \in {"chat", "memory-lane", "spotify"}
        /\ reqs'[r].via = "handler"
        /\ reqs'[r].genCalls > 0 \/ reqs'[r].ep = "spotify")
       => /\ reqs'[r].responses[1].status = 500
          /\ HasError(reqs'[r].responses[1])]_vars

\* every field of the body converts to a string
Convertible(body) ==
  \A f \in DOMAIN body : ~(body[f].t = "object" /\ body[f].s # <<>>)

\* C2 (amended): a failed generation call of /api/chat or /api/memory-lane
\* is answered with HTTP 500 and a non-empty error string; /api/spotify makes
\* no generation call: it answers 200, also while the service is failing,
\* and 500 with a non-empty error string only when its own handler throws.
C2_GenerationFailure ==
  \A r \in Slots :
    /\ (reqs[r].ep \in {"chat", "memory-lane"} /\ reqs[r].outcome = "rejected") =>
         /\ Len(reqs[r].responses) = 1
         /\ Resp(r).status = 500
         /\ HasError(Resp(r))
    /\ (reqs[r].ep = "spotify" /\ reqs[r].via = "handler") =>
         /\ reqs[r].genCalls = 0
         /\ reqs[r].outcome = "none"
         /\ Resp(r).status = (IF Convertible(reqs[r].body) THEN 200 ELSE 500)
         /\ Resp(r).status = 500 => HasError(Resp(r))

\* both generating endpoints answered a failed call with 500
C2_Witness ==
  /\ reqs[1].ep = "chat" /\ reqs[1].outcome = "rejected"
  /\ Resp(1).status = 500 /\ HasError(Resp(1))
  /\ reqs[2].ep = "memory-lane" /\ reqs[2].outcome = "rejected"
  /\ Resp(2).status = 500 /\ HasError(Resp(2))

\* C3: two failures of the generation call of /api/chat (or of
\* /api/memory-lane) for the same request body, differing only in the
\* exception's message or stack, get the same status and body, in every
\* configuration of the server.
C3_NoExceptionText ==
  \A r1 \in Slots, r2 \in Slots :
    (/\ reqs[r1].outcome = "rejected"
     /\ reqs[r2].outcome = "rejected"
     /\ reqs[r1].ep = reqs[r2].ep
     /\ reqs[r1].body = reqs[r2].body)
    => reqs[r1].responses = reqs[r2].responses

\* C4: /api/chat answers 400 with an error field when message is "" and when
\* message is omitted, and makes no generation call in either case.
C4_ChatValidation ==
  \A r \in Slots :
    (/\ reqs[r].ep = "chat"
     /\ reqs[r].via = "handler"
     /\ reqs[r].body.message \in {Undef, Str(<<>>)})
    => /\ Done(r)
       /\ Len(reqs[r].responses) = 1
       /\ Resp(r).status = 400
       /\ HasError(Resp(r))
       /\ reqs[r].genCalls = 0
       /\ reqs[r].outcome = "none"

\* one request with message omitted and one with message "" were rejected
C4_Witness ==
  /\ reqs[1].ep = "chat" /\ reqs[1].body.message = Undef
  /\ Resp(1).status = 400
  /\ reqs[2].ep = "chat" /\ reqs[2].body.message = Str(<<>>)
  /\ Resp(2).status = 400

\* C5: the suggestions of every successful /api/memory-lane response are one
\* of the two literal five-item lists, in their order.
C5_FiveSuggestions ==
  \A r \in Slots :
    (reqs[r].ep = "memory-lane" /\ Done(r) /\ Resp(r).status = 200) =>
      /\ "suggestions" \in DOMAIN Resp(r).body
      /\ Resp(r).body.suggestions.t = "array"
      /\ Len(Resp(r).body.suggestions.s) = 5
      /\ Resp(r).body.suggestions.s \in
           { << "Do you remember choosing those matching red scarves together?",
                "How did it feel when Mira gave you that big, warm hug?",
                "What made you both smile so joyfully that autumn day?",
                "Tell me about the beautiful autumn leaves around you",
                "What was special about wearing matching outfits with Mira?" >>,
             << "Tell me about your favorite childhood meal",
                "What was your favorite song when you were young?",
                "Do you remember your first pet?",
                "What was your wedding day like?",
                "Tell me about a special holiday memory" >> }

\* a successful response with a memoryType and a keyword query
C5_Witness ==
  /\ reqs[1].ep = "memory-lane" /\ Done(1) /\ Resp(1).status = 200
  /\ reqs[1].body.memoryType = Lit("childhood")
  /\ reqs[1].body.query = Str(<<"x", "H", "U", "G">>)
  /\ Len(Resp(1).body.suggestions.s) = 5

\* C6: an empty or absent query is classified as general without error: the
\* handler reaches its generation call with the general prompt (whenever
\* memoryType can be interpolated), and a successful call is answered 200
\* with the general suggestion list.
C6_AbsentQuery ==
  \A r \in Slots :
    (/\ reqs[r].ep = "memory-lane"
     /\ reqs[r].via = "handler"
     /\ reqs[r].body.query \in {Undef, Null, Str(<<>>)})
    => /\ ~reqs[r].isMira
       /\ Convertible(reqs[r].body) =>
            /\ reqs[r].genCalls = 1
            /\ reqs[r].prompt = generalPrompt(Undef, reqs[r].body.memoryType)
       /\ reqs[r].outcome = "resolved" =>
            /\ Resp(r).status = 200
            /\ Resp(r).body.suggestions = Arr(generalSuggestions)

\* an absent query was answered 200
C6_Witness ==
  /\ reqs[1].ep = "memory-lane"
  /\ reqs[1].body.query = Undef
  /\ reqs[1].outcome = "resolved"
  /\ Resp(1).status = 200

\* the required field of the endpoint of r is absent from its body
RequiredAbsent(r) ==
  /\ reqs[r].via = "handler"
  /\ \/ reqs[r].ep = "chat" /\ reqs[r].body.message = Undef
     \/ reqs[r].ep \in {"memory-lane", "spotify"} /\ reqs[r].body.query = Undef

C10_ExactlyOneResponse ==
  \A r \in Slots :
    /\ Len(reqs[r].responses) = (IF Done(r) THEN 1 ELSE 0)
    /\ reqs[r].outcome # "none" => Done(r)
    /\ reqs[r].st = "awaitGen" => reqs[r].genCalls = 1
    /\ (Arrives(r) /\ \E r0 \in Slots : Done(r0) /\ Resp(r0).status >= 400)
         => ENABLED GetHealth(r)

\* a request answered 200 after an earlier request failed with 500
C10_Witness ==
  /\ reqs[1].outcome = "rejected" /\ Len(reqs[1].responses) = 1
  /\ Resp(1).status = 500
  /\ reqs[2].ep = "chat" /\ reqs[2].outcome = "resolved"
  /\ Len(reqs[2].responses) = 1 /\ Resp(2).status = 200

\* C7: a startListening call made while isListening is true rejects with
\* 'Already listening' and changes nothing else: the installed handlers, the
\* platform session and isListening stay as they are and no earlier promise
\* is touched; the installed handlers are those of the call that opened the
\* session, whose promise is still pending.
C7_AlreadyListening ==
  [][(isListening /\ Len(calls') = Len(calls) + 1) =>
       /\ calls'[Len(calls')] = Rejected(<<"Already listening">>)
       /\ SubSeq(calls', 1, Len(calls)) = calls
       /\ handlers' = handlers
       /\ session' = session
       /\ isListening'
       /\ session = "active"
       /\ handlers = sessionCall
       /\ calls[sessionCall].state = "pending"]_vars

\* the second call was rejected, the first session is still listening and
\* its promise is pending
C7_Witness ==
  /\ Len(calls) = 2
  /\ calls[1].state = "pending"
  /\ calls[2] = Rejected(<<"Already listening">>)
  /\ isListening
  /\ session = "active"
  /\ handlers = 1

\* C8: once the platform session is over, every promise returned by
\* startListening has settled, resolved with the recognized text or rejected
\* with a message.
C8_EveryCallSettles ==
  session = "idle" =>
    \A c \in 1..Len(calls) :
      \/ calls[c].state = "resolved" /\ calls[c].value \in Transcripts
      \/ calls[c].state = "rejected" /\ calls[c].value # <<>>

\* C11: every /api/chat request that passes validation and every
\* /api/memory-lane request makes exactly one generateContent call, a request
\* rejected by validation makes none, and the first failure of the call is
\* answered at once with the fallback.
C11_OneCallNoRetry ==
  \A r \in Slots :
    reqs[r].via = "handler" =>
      /\ (reqs[r].ep = "chat" /\ Truthy(reqs[r].body.message)) => reqs[r].genCalls = 1
      /\ reqs[r].ep = "memory-lane" => reqs[r].genCalls = 1
      /\ (reqs[r].ep = "chat" /\ ~Truthy(reqs[r].body.message)) => reqs[r].genCalls = 0
      /\ reqs[r].outcome = "rejected" =>
           /\ reqs[r].genCalls = 1
           /\ Done(r)
           /\ Resp(r).status = 500

\* the two requests went through the same handler with the same input and
\* their generation calls settled the same way
SameRequest(r1, r2) ==
  /\ reqs[r1].st = reqs[r2].st
  /\ reqs[r1].ep = reqs[r2].ep
  /\ reqs[r1].via = reqs[r2].via
  /\ reqs[r1].body = reqs[r2].body
  /\ reqs[r1].outcome = reqs[r2].outcome
  /\ reqs[r1].error = reqs[r2].error

\* C12: under every interleaving, two requests with the same fields and the
\* same generation outcome have the same prompt, calls and responses, a step
\* of one request leaves every other request as it was, and no step changes
\* the server's configuration.
C12_Independent ==
  /\ [](\A r1 \in Slots, r2 \in Slots :
          SameRequest(r1, r2) =>
            /\ reqs[r1].responses = reqs[r2].responses
            /\ reqs[r1].prompt = reqs[r2].prompt
            /\ reqs[r1].isMira = reqs[r2].isMira
            /\ reqs[r1].genCalls = reqs[r2].genCalls)
  /\ [][/\ nodeEnv' = nodeEnv
        /\ \A r \in Slots :
             reqs'[r] # reqs[r] =>
               \A r2 \in Slots \ {r} : reqs'[r2] = reqs[r2]]_vars

\* the second request, not about Mira, was answered with the general
\* suggestions while the first, about Mira, is still waiting for its
\* generation call
C12_Witness ==
  /\ reqs[1].st = "awaitGen" /\ reqs[1].ep = "memory-lane"
  /\ reqs[1].isMira
  /\ reqs[2].st = "done" /\ reqs[2].ep = "memory-lane"
  /\ reqs[2].outcome = "resolved"
  /\ ~reqs[2].isMira
  /\ Resp(2).body.suggestions = Arr(generalSuggestions)

\* the user text of the request is empty or absent
EmptyUserText(r) ==
  /\ reqs[r].via = "handler"
  /\ \/ reqs[r].ep = "chat" /\ reqs[r].body.message \in {Undef, Str(<<>>)}
     \/ reqs[r].ep = "memory-lane" /\ reqs[r].body.query \in {Undef, Str(<<>>)}

\* C13 (as stated): in every mode that calls the generation service a request
\* with empty or absent user text is still answered by a generation call
\* whose prompt carries no user text.
C13_Original ==
  \A r \in Slots :
    (EmptyUserText(r) /\ Convertible(reqs[r].body)) =>
      /\ reqs[r].genCalls = 1
      /\ Done(r) => Resp(r).status \notin 400..499

LastChunk(prompt) == prompt[Len(prompt)]

\* C13 (amended): only /api/memory-lane accepts empty user text: with an
\* empty or absent query its prompt ends with 'Start a conversation about
\* pleasant memories.' in place of the user text; /api/chat rejects an empty
\* or absent message with 400 and sends no prompt.
C13_OpeningLine ==
  \A r \in Slots :
    (EmptyUserText(r) /\ Convertible(reqs[r].body)) =>
      /\ reqs[r].ep = "memory-lane" =>
           /\ reqs[r].genCalls = 1
           /\ LastChunk(reqs[r].prompt) = "Start a conversation about pleasant memories."
           /\ \A i \in 1..Len(reqs[r].prompt) : reqs[r].prompt[i] # "User input: "
           /\ Done(r) => Resp(r).status \in {200, 500}
      /\ reqs[r].ep = "chat" =>
           /\ reqs[r].genCalls = 0
           /\ reqs[r].prompt = <<>>
           /\ Done(r) /\ Resp(r).status = 400

\* an empty query was answered 200, an empty message 400
C13_Witness ==
  /\ reqs[1].ep = "memory-lane" /\ reqs[1].body.query = Str(<<>>)
  /\ reqs[1].outcome = "resolved" /\ Resp(1).status = 200
  /\ LastChunk(reqs[1].prompt) = "Start a conversation about pleasant memories."
  /\ reqs[2].ep = "chat" /\ reqs[2].body.message = Str(<<>>)
  /\ Done(2) /\ Resp(2).status = 400

\* the four fixed mood lists of /api/spotify
MoodLists ==
  { Arr(<<"Here Comes the Sun - The Beatles", "What a Wonderful World - Louis Armstrong">>),
    Arr(<<"Claire de Lune - Claude Debussy", "Weightless - Marconi Union">>),
    Arr(<<"The Way You Look Tonight - Frank Sinatra", "Moon River - Audrey Hepburn">>),
    Arr(<<"Good Vibrations - The Beach Boys", "I Want to Hold Your Hand - The Beatles">>) }

KnownMoods == {Lit("happy"), Lit("calm"), Lit("nostalgic"), Lit("energetic")}

MoodIsText(v) == v.t \in {"undefined", "string"}

\* C14: whatever the mood of a /api/spotify request (absent or any string),
\* the suggestions of the response are one of the four mood lists, the happy
\* list when the mood is absent or unknown, never empty or missing, and the
\* playlists are the fixed list of five.
C14_MoodSuggestions ==
  \A r \in Slots :
    (Done(r) /\ reqs[r].ep = "spotify" /\ reqs[r].via = "handler"
       /\ MoodIsText(reqs[r].body.mood) /\ Resp(r).status = 200) =>
      /\ "suggestions" \in DOMAIN Resp(r).body
      /\ Resp(r).body.suggestions \in MoodLists
      /\ Len(Resp(r).body.suggestions.s) > 0
      /\ reqs[r].body.mood \notin KnownMoods =>
           Resp(r).body.suggestions = musicSuggestions(Lit("happy"))
      /\ "playlists" \in DOMAIN Resp(r).body
      /\ Resp(r).body.playlists = playlistSuggestions
      /\ Len(Resp(r).body.playlists.s) = 5

\* C15: /api/test-message answers a message string m with exactly
\* received = m, echo = 'You said: "m"', status = 'Message captured
\* successfully' and a timestamp, and the request does nothing else than
\* write one console line: no generation call, no prompt, no change of the
\* server's configuration.
C15_Echo ==
  /\ [](\A r \in Slots :
          (reqs[r].ep = "test-message" /\ reqs[r].via = "handler"
             /\ reqs[r].body.message.t = "string") =>
            /\ Done(r)
            /\ Len(reqs[r].responses) = 1
            /\ Resp(r).status = 200
            /\ DOMAIN Resp(r).body = {"received", "echo", "status", "timestamp"}
            /\ Resp(r).body.received = reqs[r].body.message
            /\ Resp(r).body.echo.t = "string"
            /\ Resp(r).body.echo.s =
                 <<"You said: \"">> \o reqs[r].body.message.s \o <<"\"">>
            /\ Resp(r).body.status = Lit("Message captured successfully")
            /\ Resp(r).body.timestamp.t = "string"
            /\ reqs[r].genCalls = 0
            /\ reqs[r].prompt = <<>>
            /\ reqs[r].outcome = "none"
            /\ Len(reqs[r].console) = 1
            /\ reqs[r].console[1].level = "log")
  /\ [][\A r \in Slots :
          reqs'[r].ep = "test-message" /\ reqs[r].ep # "test-message" =>
            /\ UNCHANGED <<server, client, view>>
            /\ \A r2 \in Slots \ {r} : reqs'[r2] = reqs[r2]]_vars

\* a message of several characters was echoed
C15_Witness ==
  /\ Done(1) /\ reqs[1].ep = "test-message"
  /\ reqs[1].body.message = Str(<<"r", "E", "d">>)
  /\ Resp(1).body.echo.s = <<"You said: \"", "r", "E", "d", "\"">>

\* C20: in every state of the voice service isListening is true exactly when
\* a platform session started by startListening has not yet ended.
C20_ListeningIffSession ==
  isListening <=> session # "idle"

\* C16: the message list only grows at its end: no step modifies, reorders
\* or removes a message that is in the list; a submission appends the user's
\* message and a settled request appends one or two assistant messages.
C16_AppendOnly ==
  [][/\ Len(messages') >= Len(messages)
     /\ SubSeq(messages', 1, Len(messages)) = messages
     /\ Len(inFlight') > Len(inFlight) =>
          /\ Len(messages') = Len(messages) + 1
          /\ messages'[Len(messages')].isUser
          /\ messages'[Len(messages')].text = trim(inputText)
     /\ Len(inFlight') < Len(inFlight) =>
          /\ Len(messages') \in {Len(messages) + 1, Len(messages) + 2}
          /\ \A i \in (Len(messages) + 1)..Len(messages') : ~messages'[i].isUser]_vars

\* a mode change, a submission, its reply and the suggestions are in the
\* list in the order they happened, after the welcome message
C16_Witness ==
  /\ Len(messages) = 5
  /\ messages[1] = welcomeMessage
  /\ messages[2].text =
       <<"Let's explore some wonderful memories together. What would you like to remember?">>
  /\ messages[3].isUser /\ messages[3].text = <<"h", "i">>
  /\ messages[4].text = <<"That sounds lovely.">>
  /\ messages[5].text[1] = "Here are some suggestions:\n"

\* C17: on a platform without speech recognition startRecording appends one
\* assistant message telling the user to type instead, starts no listening
\* session and leaves isRecording, isLoading and the input text as they are.
C17_Unsupported ==
  /\ [](recognition = "null" =>
          /\ ~isRecording
          /\ ~isListening
          /\ session = "idle"
          /\ calls = <<>>
          /\ awaiting = {})
  /\ [][(recognition = "null" /\ startRecording) =>
          /\ Len(messages') = Len(messages) + 1
          /\ SubSeq(messages', 1, Len(messages)) = messages
          /\ ~messages'[Len(messages')].isUser
          /\ messages'[Len(messages')].text =
               <<"Voice recognition is not supported in your browser. Please try typing instead.">>
          /\ isRecording' = isRecording
          /\ isLoading' = isLoading
          /\ inputText' = inputText
          /\ UNCHANGED <<session, calls, isListening, handlers, awaiting>>]_vars

\* the microphone was pressed on a platform without speech recognition while
\* the user had typed something
C17_Witness ==
  /\ recognition = "null"
  /\ Len(messages) = 2
  /\ messages[2].text =
       <<"Voice recognition is not supported in your browser. Please try typing instead.">>
  /\ inputText = <<"h", "i">>
  /\ ~isRecording /\ ~isLoading
  /\ session = "idle" /\ calls = <<>>

\* C18: whatever error code the platform reports, the message the View
\* appends for the failure contains no raw platform error code.
C18_PlainLanguageFailure ==
  \A i \in DOMAIN messages :
    ~messages[i].isUser =>
      \A k \in DOMAIN messages[i].text : messages[i].text[k] \notin ErrorCodes

\* C19: whenever a recording is in progress the voice button is enabled, so
\* that the user can invoke stopRecording.
C19_StopEnabled ==
  isRecording => VoiceButtonEnabled

\* the request that a submission in the given mode sends for the given text
RequestOfMode(mode, text) ==
  CASE mode = "chat" ->
         [endpoint |-> "/chat", payload |-> [NoBody EXCEPT !.message = Str(text)]]
    [] mode = "memory" ->
         [endpoint |-> "/memory-lane", payload |-> [NoBody EXCEPT !.query = Str(text)]]
    [] mode = "spotify" ->
         [endpoint |-> "/spotify",
          payload |-> [NoBody EXCEPT !.action = Lit("search"), !.query = Str(text)]]

Submitting == Len(inFlight') > Len(inFlight)
Replying == Len(inFlight') < Len(inFlight)

\* C21: a submission sends the request of the mode that is active when it is
\* made; the mode changes only in a step that appends the new mode's message
\* (handleModeChange); and neither a mode change nor any other step alters a
\* request that is pending.
C21_ModeRouting ==
  [][/\ Submitting =>
          inFlight' = Append(inFlight, RequestOfMode(activeMode, trim(inputText)))
     /\ activeMode' # activeMode =>
          /\ Len(messages') = Len(messages) + 1
          /\ messages'[Len(messages')].text = modeMessage(activeMode')
          /\ inFlight' = inFlight
     /\ ~Submitting =>
          \A i \in 1..Len(inFlight') : \E j \in 1..Len(inFlight) : inFlight'[i] = inFlight[j]]_vars

\* the mode was changed while the request of the chat mode is pending
C21_Witness ==
  /\ Len(inFlight) = 1
  /\ inFlight[1].endpoint = "/chat"
  /\ inFlight[1].payload.message = Str(<<"h", "i">>)
  /\ activeMode = "spotify"

ApologyText == <<"I'm sorry, I'm having trouble right now. Please try again in a moment.">>

\* C22: an accepted submission appends the user's message and sets isLoading;
\* when the request settles, one assistant reply is appended (the response,
\* or the apology), followed by one suggestions message only after a
\* response of /memory-lane or /spotify, and isLoading is false; isLoading is
\* true as long as the request is pending. With blank input nothing is sent
\* and no user message is appended.
C22_SubmissionCycle ==
  /\ [](inFlight # <<>> => isLoading)
  /\ [][/\ Submitting =>
             /\ trim(inputText) # <<>>
             /\ messages' = Append(messages, [id |-> <<"t+", now>>,
                                              text |-> trim(inputText),
                                              isUser |-> TRUE])
             /\ isLoading'
        /\ Replying =>
             LET req == CHOOSE r \in {inFlight[i] : i \in 1..Len(inFlight)} :
                          \A j \in 1..Len(inFlight') : inFlight'[j] # r
                 added == SubSeq(messages', Len(messages) + 1, Len(messages'))
             IN /\ SubSeq(messages', 1, Len(messages)) = messages
                /\ Len(added) \in {1, 2}
                /\ \A k \in 1..Len(added) : ~added[k].isUser
                /\ added[1].text[1] # "Here are some suggestions:\n"
                /\ Len(added) = 2 <=>
                     (added[1].text # ApologyText /\ req.endpoint # "/chat")
                /\ Len(added) = 2 =>
                     /\ added[2].text[1] = "Here are some suggestions:\n"
                     /\ Len(added[2].text) > 1
                /\ ~isLoading'
        /\ trim(inputText) = <<>> =>
             /\ ~Submitting
             /\ \A k \in (Len(messages) + 1)..Len(messages') : ~messages'[k].isUser]_vars

\* a submission in the chat mode was answered with the apology
C22_Witness ==
  /\ Len(messages) = 3
  /\ messages[2].isUser /\ messages[2].text = <<"h", "i">>
  /\ ~messages[3].isUser /\ messages[3].text = ApologyText
  /\ ~isLoading
  /\ inFlight = <<>>

\* the texts of the server's error bodies and of the exceptions
ServerErrorTexts ==
  { <<"Message is required">>,
    <<"I'm having trouble understanding right now. Please try again.">>,
    <<"Let's try talking about memories again in a moment.">>,
    <<"Music is taking a short break. Let's try again soon.">>,
    <<"Something went wrong. Please try again.">>,
    <<"Network Error">> }
  \cup {e.message : e \in Errors} \cup {e.stack : e \in Errors}

\* C23: every way a pending request can fail (no answer, 400, 500) makes the
\* View append exactly one assistant message, its own apology, and no
\* message of the list carries a text of the server's error body or of the
\* exception.
C23_FailureApology ==
  /\ \A i \in 1..Len(inFlight) :
       \A reply \in axiosReplies(inFlight[i]) :
         reply.status \notin 200..299 =>
           LET after == replyMessages(messages, reply) IN
           /\ Len(after) = Len(messages) + 1
           /\ SubSeq(after, 1, Len(messages)) = messages
           /\ ~after[Len(after)].isUser
           /\ after[Len(after)].text = ApologyText
  /\ \A k \in DOMAIN messages :
       ~messages[k].isUser => messages[k].text \notin ServerErrorTexts

\* a submission in the memory mode was answered with the apology
C23_Witness ==
  /\ Len(messages) = 4
  /\ activeMode = "memory"
  /\ messages[3].isUser
  /\ messages[4].text = ApologyText
  /\ inFlight = <<>>

\* C26: at most one request is pending, none while a recording is in
\* progress, at most one recording is awaited, and while isLoading is true the
\* input field, the send button and the voice button are disabled.
C26_OneOperation ==
  /\ Len(inFlight) <= 1
  /\ Cardinality(awaiting) <= 1
  /\ (isRecording \/ awaiting # {}) => inFlight = <<>>
  /\ inFlight # <<>> => isLoading
  /\ awaiting # {} => isLoading
  /\ isLoading => ~InputEnabled /\ ~SendButtonEnabled /\ ~VoiceButtonEnabled

\* a request is pending after a recording that ended with a transcript
C26_Witness ==
  /\ Len(inFlight) = 1
  /\ isLoading
  /\ Len(calls) = 1
  /\ calls[1].state = "resolved"
  /\ ~isRecording

\* C27: while a request is pending, the only step that appends to the
\* message list is the one that appends its reply.
C27_ReplyFollowsMessage ==
  [][(inFlight # <<>> /\ messages' # messages) => Replying]_vars

\* C28: no two messages of the list have the same id.
C28_UniqueIds ==
  \A i \in DOMAIN messages : \A j \in DOMAIN messages :
    i # j => messages[i].id # messages[j].id

Quitting == phase # "exited" /\ phase' = "exited"

\* C24: a backend child is spawned exactly when the health probe errors, at
\* most one child is spawned per run, a child is killed only by before-quit
\* and only the one the shell spawned, after before-quit no child of the
\* shell is left running, and a backend that was already running is not
\* stopped by the shell.
C24_SpawnAndKill ==
  /\ [](/\ Len(children) <= 1
        /\ serverProcess = Len(children)
        /\ testConnection = "errored" <=> Len(children) = 1)
  /\ [][/\ Len(children') > Len(children) <=>
             (testConnection = "pending" /\ testConnection' = "errored")
        /\ testConnection' = "answered" => children' = children
        /\ \A c \in 1..Len(children) :
             (children'[c] = "killed" /\ children[c] # "killed") =>
               Quitting /\ c = serverProcess
        /\ Quitting =>
             /\ \A c \in 1..Len(children') :
                  children'[c] \notin {"spawning", "listening"}
             /\ external' = external]_vars

\* the shell spawned the backend, which listened, and killed it on quit
C24_Witness ==
  /\ phase = "exited"
  /\ testConnection = "errored"
  /\ children = <<"killed">>
  /\ created = 1

\* C25: a window is created only after startServer has completed, and
\* whenever one is created the backend is running and answers its health
\* check.
C25_BackendBeforeWindow ==
  [][created' > created =>
       /\ phase # "loaded"
       /\ testConnection # "none"
       /\ BackendAnswering]_vars

\* C30: no menu click ends with a TypeError for a missing main window, and
\* at most one window is open.
C30_WindowPresent ==
  /\ lastClick.outcome # "TypeError"
  /\ Cardinality(windows) <= 1

====
